---- MODULE Spec2Model ----
(***************************************************************************)
(* One process invocation of the Auerswald configuration manager           *)
(* (auer_cfg_mgr.py and its near duplicate auer_cfg_switch.py) against a   *)
(* PBX appliance.  The state is the object's attributes, the position of   *)
(* main, the appliance's switching state and the trace of everything the   *)
(* process did to the outside world (requests, tunnel, sleep, output).     *)
(***************************************************************************)
EXTENDS Integers, Sequences, FiniteSets, TLC

VARIABLES
    variant,      \* which of the two scripts runs: "mgr" or "switch"
    command,      \* args.command
    number,       \* args.number: <<>> is None, <<n>> the integer n
    ssh_tunnel,   \* self.ssh_tunnel, from the configuration file
    pc,           \* position in main: "parse", "connect", "call", "exited"
    script,       \* the methods main still has to call, in order
    tunnel,       \* self.tunnel: [state, local_bind_port]
    attrs,        \* names of the attributes the accessors have set on self
    pbx,          \* the appliance: [enc, enabled, relais, relaisName, rows]
    log,          \* everything the process did, in order
    exitStatus    \* the process exit status once pc = "exited"

vars == <<variant, command, number, ssh_tunnel, pc, script, tunnel, attrs,
          pbx, log, exitStatus>>

-----------------------------------------------------------------------------
(* Bounds of the model *)

MaxRows == 2      \* longest configuration list the appliance returns

-----------------------------------------------------------------------------
(* Python values as the JSON decoder hands them over *)

PyStr(s) == [type |-> "str", val |-> s]
PyBool(b) == [type |-> "bool", val |-> IF b THEN "True" ELSE "False"]
PyInt(s) == [type |-> "int", val |-> s]

\* bool(v): the empty string, False and 0 are falsy, every other value truthy
Truthy(v) ==
    CASE v.type = "str" -> v.val # ""
      [] v.type = "bool" -> v.val = "True"
      [] v.type = "int" -> v.val # "0"

Digit(d) == <<"0", "1", "2", "3", "4", "5", "6", "7", "8", "9">>[d + 1]

\* str(n) of a non-negative integer
RECURSIVE Str(_)
Str(n) == IF n < 10 THEN Digit(n) ELSE Str(n \div 10) \o Digit(n % 10)

-----------------------------------------------------------------------------
(* The appliance *)

Encodings == {"str", "bool", "int"}
RelaisNames == {"Relais 1", "Relais 2"}
ConfigNames == <<"Day", "Night", "Holiday">>
IdentNumbers == {"10", "20"}
UserData == {"missing", "active:false", "active:true"}
Numbers == {<<>>, <<10>>, <<99>>}
Commands == {"show", "enable", "disable", "select"}
LocalPorts == {"40001", "40002"}
auer_address == "pbx.example.org"

\* how the appliance reports a flag in its JSON documents
Encode(enc, b) ==
    CASE enc = "str" -> PyStr(IF b THEN "1" ELSE "0")
      [] enc = "bool" -> PyBool(b)
      [] enc = "int" -> PyInt(IF b THEN "1" ELSE "0")

\* configuration lists: server ids are the positions, names are fixed
RowsOfLen(n) ==
    { [i \in 1..n |-> [id |-> i,
                       data |-> <<ConfigNames[i], f[i][1]>>,
                       userdata |-> f[i][2]]] :
        f \in [1..n -> IdentNumbers \X UserData] }

RowLists == UNION { RowsOfLen(n) : n \in 0..MaxRows }

\* body of GET /config_autoswitch_state
AutoswitchState(p) ==
    [switchCfgCb |-> Encode(p.enc, p.enabled),
     switchSysRelais |-> Encode(p.enc, p.relais),
     switchSysRelaisName |-> p.relaisName]

\* body of a GET answered 200
Body(p, path) ==
    CASE path = "/config_autoswitch_state" -> AutoswitchState(p)
      [] path = "/configs_state" -> [rows |-> p.rows]
      [] OTHER -> [document |-> path]

\* the appliance after POST /config_autoswitch_save with form `data`: a
\* checkbox field that is absent from the form is cleared
SaveAutoswitch(p, data) ==
    [p EXCEPT !.enabled = "switchCfgCb" \in DOMAIN data,
              !.relais = "switchSysRelais" \in DOMAIN data,
              !.relaisName = data.switchSysRelaisName]

\* the appliance after POST /configs_set?configId=<id>
SetConfig(p, id) ==
    [p EXCEPT !.rows = [i \in 1..Len(p.rows) |->
        [p.rows[i] EXCEPT !.userdata =
            IF Str(p.rows[i].id) = id THEN "active:true" ELSE "active:false"]]]

-----------------------------------------------------------------------------
(* Transport *)

NoTunnel == [state |-> "absent", local_bind_port |-> ""]

\* Url that ignores the tunnel
Url_Direct(path) == <<"https://", auer_address, path>>

\* the URL _fetch and _send format, as the pieces of the f-string
Url(path) ==
    IF ssh_tunnel
    THEN <<"https://", "127.0.0.1", ":", tunnel.local_bind_port, path>>
    ELSE <<"https://", auer_address, path>>

Event(op, url, path, params, data, status, body) ==
    [op |-> op, url |-> url, path |-> path, params |-> params, data |-> data,
     status |-> status, body |-> body]

None == "None"

\* a session.get: status "ok" is a 200 with its JSON document, "httperr" an
\* error response (401, 500) whose body is not the document, "neterr" an
\* exception of the requests library
Fetch(path, status) ==
    Event("GET", Url(path), path, None, None, status,
          IF status = "ok" THEN Body(pbx, path) ELSE None)

\* a session.post
Send(path, params, data, status) ==
    Event("POST", Url(path), path, params, data, status, None)

Output(op, what) == Event(op, None, None, None, None, None, what)

Statuses == {"ok", "httperr", "neterr"}

-----------------------------------------------------------------------------
(* Control flow shared by the methods *)

Step(evs, p, a, scr, nextPc, st) ==
    /\ log' = log \o evs
    /\ pbx' = p
    /\ attrs' = a
    /\ script' = scr
    /\ pc' = nextPc
    /\ exitStatus' = st
    /\ UNCHANGED <<variant, command, number, ssh_tunnel, tunnel>>

\* the method returns to main, which goes on with the next call
Return(evs, p, a) == Step(evs, p, a, Tail(script), "call", exitStatus)

\* an exception nobody catches: traceback, exit status 1
Raise(evs, a) ==
    Step(evs \o <<Output("traceback", "exception")>>, pbx, a, script, "exited", 1)

Calling(method) == pc = "call" /\ script # <<>> /\ Head(script) = method

-----------------------------------------------------------------------------
(* Query adapter: the cached accessors and show_configurations *)

\* one read of show_configurations: the accessor or fetch, the attribute
\* whose presence hasattr probes, the attribute the fetch is stored in, and
\* the document fetched
Read(name, probes, stores, path) ==
    [name |-> name, probes |-> probes, stores |-> stores, path |-> path]

_pbx_user == Read("_pbx_user", "pbx_logstatus", "pbx_logstatus", "/logstatus_state")
_pbx_product ==
    Read("_pbx_product", "pbx_info",
         IF variant = "mgr" THEN "pbx_tree" ELSE "pbx_info", "/tree")
_pbx_name ==
    Read("_pbx_name", "pbx_info",
         IF variant = "mgr" THEN "pbx_tree" ELSE "pbx_info", "/tree")
_pbx_firmware == Read("_pbx_firmware", "pbx_about", "pbx_about", "/about_state")
_pbx_date == Read("_pbx_date", "pbx_about", "pbx_about", "/about_state")
_pbx_serial == Read("_pbx_serial", "pbx_about", "pbx_about", "/about_state")
_fetch_autoswitch_state ==
    Read("_fetch_autoswitch_state", None, None, "/config_autoswitch_state")
_fetch_cfg_state == Read("_fetch_cfg_state", None, None, "/configs_state")

\* the reads of show_configurations in the order the code evaluates them
ShowReads ==
    (IF variant = "mgr"
     THEN <<_pbx_product, _pbx_firmware, _pbx_date, _pbx_serial, _pbx_user,
            _pbx_name>>
     ELSE <<_pbx_product, _pbx_name>>)
    \o <<_fetch_autoswitch_state, _fetch_cfg_state>>

\* run the reads in order; the failAt-th request of the run (0: none) is
\* answered `status` and raises
RECURSIVE RunReads(_, _, _, _, _)
RunReads(reads, a, evs, failAt, status) ==
    IF reads = <<>> THEN [attrs |-> a, evs |-> evs, raised |-> FALSE]
    ELSE LET r == Head(reads) IN
        IF r.probes \in a
        THEN RunReads(Tail(reads), a, evs, failAt, status)
        ELSE IF Len(evs) + 1 = failAt
        THEN [attrs |-> a, evs |-> Append(evs, Fetch(r.path, status)),
              raised |-> TRUE]
        ELSE RunReads(Tail(reads),
                      IF r.stores = None THEN a ELSE a \cup {r.stores},
                      Append(evs, Fetch(r.path, "ok")), failAt, status)

\* what the tables show: the two status marks and a row per configuration
IsActive(config) == config.userdata = "active:true"

Rendered(p) ==
    [autoswitch |-> Truthy(AutoswitchState(p).switchCfgCb),
     relais |-> Truthy(AutoswitchState(p).switchSysRelais),
     relaisName |-> AutoswitchState(p).switchSysRelaisName,
     rows |-> [i \in 1..Len(p.rows) |->
                 <<p.rows[i].data[1], p.rows[i].data[2], IsActive(p.rows[i])>>]]

show_configurations ==
    /\ Calling("show_configurations")
    /\ \E failAt \in 0..Len(ShowReads), status \in {"httperr", "neterr"} :
         LET run == RunReads(ShowReads, attrs, <<>>, failAt, status) IN
         IF run.raised
         THEN Raise(run.evs, run.attrs)
         ELSE Return(run.evs \o <<Output("render", Rendered(pbx))>>, pbx, run.attrs)

-----------------------------------------------------------------------------
(* Command actions *)

EnableGuard(current) == current.switchCfgCb = PyStr("1")

EnableData(current) ==
    [switchCfgCb |-> "switchCfgCb",
     switchSysRelais |-> "switchSysRelais",
     switchSysRelaisName |-> current.switchSysRelaisName]

DisableGuard(current) == current.switchCfgCb = PyStr("0")

\* DisableData with the relay name written into the form
DisableData_Hardcoded(current) ==
    [switchSysRelais |-> "switchSysRelais",
     switchSysRelaisName |-> "Relais 1"]

DisableData(current) ==
    [switchSysRelais |-> "switchSysRelais",
     switchSysRelaisName |-> current.switchSysRelaisName]

\* the body shared by enable_autoswitch and disable_autoswitch, given what
\* the guard and the form evaluate to on the state the appliance returns:
\* fetch the state, return if the guard holds, else post the form
Autoswitch(guard, data) ==
    \E getStatus \in Statuses, postStatus \in Statuses :
        LET fetch == Fetch("/config_autoswitch_state", getStatus)
            send == Send("/config_autoswitch_save", None, data, postStatus)
        IN  IF getStatus # "ok" THEN Raise(<<fetch>>, attrs)
            ELSE IF guard THEN Return(<<fetch>>, pbx, attrs)
            ELSE IF postStatus = "neterr" THEN Raise(<<fetch, send>>, attrs)
            ELSE Return(<<fetch, send>>,
                        IF postStatus = "ok"
                        THEN SaveAutoswitch(pbx, data) ELSE pbx,
                        attrs)

enable_autoswitch ==
    /\ Calling("enable_autoswitch")
    /\ Autoswitch(EnableGuard(AutoswitchState(pbx)),
                  EnableData(AutoswitchState(pbx)))

disable_autoswitch ==
    /\ Calling("disable_autoswitch")
    /\ Autoswitch(DisableGuard(AutoswitchState(pbx)),
                  DisableData(AutoswitchState(pbx)))

\* FindConfig with the server id compared in place of the identification
\* number
RECURSIVE FindConfig_ById(_, _, _)
FindConfig_ById(configs, s, i) ==
    IF i > Len(configs) THEN 0
    ELSE IF Str(configs[i].id) = s THEN i
    ELSE FindConfig_ById(configs, s, i + 1)

\* the for loop of switch_config: the position of the first entry whose
\* identification number is the string s, from position i on; 0 if none
RECURSIVE FindConfig(_, _, _)
FindConfig(configs, s, i) ==
    IF i > Len(configs) THEN 0
    ELSE IF configs[i].data[2] = s THEN i
    ELSE FindConfig(configs, s, i + 1)

\* SwitchSend without the settle delay
SwitchSend_NoSleep(config, status) ==
    <<Send("/configs_set", [configId |-> Str(config.id)], None, status)>>

\* what switch_config does once the loop has matched `config`
SwitchSend(config, status) ==
    LET send == Send("/configs_set", [configId |-> Str(config.id)], None, status)
    IN  IF status = "neterr" THEN <<send>>
        ELSE <<send, Output("sleep", "1")>>

\* NotFound that prints the message and returns to main
NotFound_Returns(fetch) ==
    Return(<<fetch, Output("print", Str(number[1]))>>, pbx, attrs)

\* the loop matched nothing: print the message and exit(1)
NotFound(fetch) ==
    Step(<<fetch, Output("print", Str(number[1])), Output("exit", "1")>>,
         pbx, attrs, script, "exited", 1)

switch_config ==
    /\ Calling("switch_config")
    /\ \E getStatus \in Statuses, postStatus \in Statuses :
        LET fetch == Fetch("/configs_state", getStatus)
            configs == pbx.rows
            i == FindConfig(configs, Str(number[1]), 1)
        IN  IF getStatus # "ok" THEN Raise(<<fetch>>, attrs)
            ELSE IF i = 0 THEN NotFound(fetch)
            ELSE IF IsActive(configs[i]) THEN Return(<<fetch>>, pbx, attrs)
            ELSE IF postStatus = "neterr"
            THEN Raise(<<fetch>> \o SwitchSend(configs[i], postStatus), attrs)
            ELSE Return(<<fetch>> \o SwitchSend(configs[i], postStatus),
                        IF postStatus = "ok"
                        THEN SetConfig(pbx, Str(configs[i].id)) ELSE pbx,
                        attrs)

-----------------------------------------------------------------------------
(* main *)

\* Script with the action called again after the state is shown
Script_Again(cmd) ==
    CASE cmd = "show" -> <<"show_configurations">>
      [] cmd = "enable" ->
           <<"enable_autoswitch", "show_configurations", "enable_autoswitch">>
      [] cmd = "disable" ->
           <<"disable_autoswitch", "show_configurations", "disable_autoswitch">>
      [] cmd = "select" ->
           <<"switch_config", "show_configurations", "switch_config">>

\* the calls of the if/elif chain
Script(cmd) ==
    CASE cmd = "show" -> <<"show_configurations">>
      [] cmd = "enable" -> <<"enable_autoswitch", "show_configurations">>
      [] cmd = "disable" -> <<"disable_autoswitch", "show_configurations">>
      [] cmd = "select" -> <<"switch_config", "show_configurations">>

\* parse_args and the check that select has its number; parser.error
\* prints the usage and exits with status 2
main_parse_args ==
    /\ pc = "parse"
    /\ IF command = "select" /\ number = <<>>
       THEN /\ log' = Append(log, Output("parser.error", "usage"))
            /\ pc' = "exited"
            /\ exitStatus' = 2
       ELSE /\ pc' = "connect"
            /\ UNCHANGED <<log, exitStatus>>
    /\ UNCHANGED <<variant, command, number, ssh_tunnel, script, tunnel, attrs, pbx>>

\* _connect_ssh_tunnel if configured, then the dispatch on the command
main_connect_ssh_tunnel ==
    /\ pc = "connect"
    /\ IF ssh_tunnel
       THEN \E port \in LocalPorts, status \in {"ok", "neterr"} :
              IF status = "ok"
              THEN /\ tunnel' = [state |-> "started", local_bind_port |-> port]
                   /\ log' = Append(log, Output("tunnel.start", port))
                   /\ pc' = "call"
                   /\ script' = Script(command)
                   /\ UNCHANGED exitStatus
              ELSE /\ log' = log \o <<Output("tunnel.start", "failed"),
                                      Output("traceback", "exception")>>
                   /\ pc' = "exited"
                   /\ exitStatus' = 1
                   /\ UNCHANGED <<tunnel, script>>
       ELSE /\ pc' = "call"
            /\ script' = Script(command)
            /\ UNCHANGED <<tunnel, log, exitStatus>>
    /\ UNCHANGED <<variant, command, number, ssh_tunnel, attrs, pbx>>

\* the end of main: _disconnect_ssh_tunnel if configured, then the
\* interpreter exits with status 0
main_disconnect_ssh_tunnel ==
    /\ pc = "call"
    /\ script = <<>>
    /\ IF ssh_tunnel
       THEN /\ tunnel' = [tunnel EXCEPT !.state = "stopped"]
            /\ log' = Append(log, Output("tunnel.stop", tunnel.local_bind_port))
       ELSE UNCHANGED <<tunnel, log>>
    /\ pc' = "exited"
    /\ exitStatus' = 0
    /\ UNCHANGED <<variant, command, number, ssh_tunnel, script, attrs, pbx>>

-----------------------------------------------------------------------------
(* One invocation of the script *)

\* a list of two configurations, the first one active
ExampleRows ==
    <<[id |-> 1, data |-> <<"Day", "10">>, userdata |-> "active:true"],
      [id |-> 2, data |-> <<"Night", "20">>, userdata |-> "missing"]>>

\* the appliances a command is run against: select against every
\* configuration list, the other commands against every autoswitch state
Appliances(cmd) ==
    IF cmd = "select"
    THEN [enc : {"bool"}, enabled : {FALSE}, relais : {TRUE},
          relaisName : {"Relais 1"}, rows : RowLists]
    ELSE [enc : Encodings, enabled : BOOLEAN, relais : BOOLEAN,
          relaisName : RelaisNames, rows : {ExampleRows}]

Init ==
    /\ variant \in {"mgr", "switch"}
    /\ command \in Commands
    /\ number \in Numbers
    /\ (command # "select" => number = <<>>)
    /\ ssh_tunnel \in BOOLEAN
    /\ pc = "parse"
    /\ script = <<>>
    /\ tunnel = NoTunnel
    /\ attrs = {}
    /\ pbx \in Appliances(command)
    /\ log = <<>>
    /\ exitStatus = -1

Next ==
    \/ main_parse_args
    \/ main_connect_ssh_tunnel
    \/ show_configurations
    \/ enable_autoswitch
    \/ disable_autoswitch
    \/ switch_config
    \/ main_disconnect_ssh_tunnel

Spec == Init /\ [][Next]_vars

-----------------------------------------------------------------------------
(* Two calls of enable_autoswitch in a row on one object *)

InitTwice ==
    /\ variant \in {"mgr", "switch"}
    /\ command = "enable"
    /\ number = <<>>
    /\ ssh_tunnel \in BOOLEAN
    /\ pc = "call"
    /\ script = <<"enable_autoswitch", "enable_autoswitch">>
    /\ IF ssh_tunnel
       THEN \E port \in LocalPorts :
              tunnel = [state |-> "started", local_bind_port |-> port]
       ELSE tunnel = NoTunnel
    /\ attrs = {}
    /\ pbx \in Appliances(command)
    /\ log = <<>>
    /\ exitStatus = -1

NextTwice == enable_autoswitch

SpecTwice == InitTwice /\ [][NextTwice]_vars

-----------------------------------------------------------------------------
(* Reading the trace *)

Requests == { i \in DOMAIN log : log[i].op \in {"GET", "POST"} }
Posts == { i \in DOMAIN log : log[i].op = "POST" }
PostsTo(path) == { i \in Posts : log[i].path = path }
GetsOf(path) == { i \in DOMAIN log : log[i].op = "GET" /\ log[i].path = path }
Failed == { i \in Requests : log[i].status # "ok" }
Rendered_ == { i \in DOMAIN log : log[i].op = "render" }
Tracebacks == { i \in DOMAIN log : log[i].op = "traceback" }

Min(S) == CHOOSE m \in S : \A n \in S : m <= n

\* positions in `rows` whose identification number is the string s
Matches(rows, s) == { j \in DOMAIN rows : rows[j].data[2] = s }

\* switch_config has run and its fetch returned the list
SwitchFetched ==
    /\ command = "select"
    /\ Requests # {}
    /\ log[Min(Requests)].op = "GET"
    /\ log[Min(Requests)].path = "/configs_state"
    /\ log[Min(Requests)].status = "ok"

FetchedRows == log[Min(Requests)].body.rows

-----------------------------------------------------------------------------
(* C1 *)

\* C1: once switch_config has fetched a configuration list, it has posted to
\* /configs_set exactly when the list holds an entry with the target
\* identification number and the entry the scan matched (the first such
\* entry) is not active; it has posted nothing when that entry is active or
\* when nothing matches, and when nothing matches the process has exited
\* with status 1 without returning to main (nothing is requested or shown
\* after the fetch).
C1_SwitchWritesIffInactiveMatch ==
    SwitchFetched =>
        LET m == Matches(FetchedRows, Str(number[1]))
            writes == PostsTo("/configs_set")
        IN  /\ Posts = writes
            /\ Cardinality(writes) <= 1
            /\ (writes # {}) <=>
                   (m # {} /\ FetchedRows[Min(m)].userdata # "active:true")
            /\ m = {} =>
                   /\ pc = "exited"
                   /\ exitStatus = 1
                   /\ Requests = {Min(Requests)}
                   /\ Rendered_ = {}
                   /\ log[Len(log)].op = "exit"

\* select 10 against a list whose second entry carries 10 and is not
\* active: one write, with that entry's id
C1_Witness ==
    /\ SwitchFetched
    /\ Len(FetchedRows) = 2
    /\ Matches(FetchedRows, Str(number[1])) = {2}
    /\ \E i \in PostsTo("/configs_set") : log[i].params.configId = "2"

-----------------------------------------------------------------------------
(* C2 *)

\* C2: two calls of enable_autoswitch in a row, starting with autoswitch
\* not enabled and with the first write applied by the appliance, post to
\* /config_autoswitch_save exactly once, whatever encoding the appliance
\* reports switchCfgCb in.
C2_TwoEnablesOneWrite ==
    ( /\ pc = "call"
      /\ script = <<>>
      /\ Len(log) >= 2
      /\ log[1].op = "GET"
      /\ log[1].status = "ok"
      /\ log[1].body.switchCfgCb = Encode(pbx.enc, FALSE)
      /\ log[2].op = "POST"
      /\ log[2].status = "ok" )
    => Cardinality(PostsTo("/config_autoswitch_save")) = 1

-----------------------------------------------------------------------------
(* C3 *)

\* C3: every post to /config_autoswitch_save comes right after a fetch of
\* /config_autoswitch_state that returned a document, and posts the
\* switchSysRelaisName of that document.
C3_RelaisNamePreserved ==
    \A i \in PostsTo("/config_autoswitch_save") :
        /\ i > 1
        /\ log[i - 1].op = "GET"
        /\ log[i - 1].path = "/config_autoswitch_state"
        /\ log[i - 1].status = "ok"
        /\ log[i].data.switchSysRelaisName = log[i - 1].body.switchSysRelaisName

\* disable has posted its form on an appliance bound to "Relais 2"
C3_Witness ==
    \E i \in PostsTo("/config_autoswitch_save") :
        /\ command = "disable"
        /\ "switchCfgCb" \notin DOMAIN log[i].data
        /\ log[i].data.switchSysRelaisName = "Relais 2"

-----------------------------------------------------------------------------
(* C4 *)

\* C4: a request that fails (a network error, or an error response to a GET
\* or a POST) ends the invocation: the process has exited with a non-zero
\* status, and nothing is requested or shown after the failed request.
C4_FailuresAreFatal ==
    \A i \in Failed :
        /\ \A j \in (i + 1)..Len(log) : log[j].op \notin {"GET", "POST", "render"}
        /\ pc = "exited" => exitStatus # 0

-----------------------------------------------------------------------------
(* C5 *)

UsageError == command = "select" /\ number = <<>>

\* the list switch_config fetched holds no entry with the target number
LookupFailure ==
    /\ SwitchFetched
    /\ Matches(FetchedRows, Str(number[1])) = {}

\* the command ran to its end: the state was shown and nothing raised
Completed == Rendered_ # {} /\ Tracebacks = {}

\* C5 as stated: the exit status is 0 when the command ran to completion
\* and 1 both on select without a number and on a failed lookup.
C5_ExitStatusAsStated ==
    pc = "exited" =>
        /\ Completed => exitStatus = 0
        /\ UsageError => exitStatus = 1
        /\ LookupFailure => exitStatus = 1

\* C5 amended: the exit status is 0 when the command ran to completion, 2
\* on select without a number (parser.error) and 1 on a failed lookup.
C5_ExitStatus ==
    pc = "exited" =>
        /\ Completed => exitStatus = 0
        /\ UsageError => exitStatus = 2
        /\ LookupFailure => exitStatus = 1

\* select without a number has ended in parser.error with status 2
C5_Witness ==
    /\ pc = "exited"
    /\ UsageError
    /\ log[Len(log)].op = "parser.error"
    /\ exitStatus = 2

-----------------------------------------------------------------------------
(* C6 *)

TunnelStarts == { i \in DOMAIN log : log[i].op = "tunnel.start" }
TunnelStops == { i \in DOMAIN log : log[i].op = "tunnel.stop" }

\* C6: with tunneling configured and the arguments valid, at most one
\* tunnel is opened and it is opened before the first request; and once
\* the process has exited without a network error, the tunnel has been
\* stopped, after the last request.
C6_TunnelTornDown ==
    (ssh_tunnel /\ ~UsageError) =>
        /\ Cardinality(TunnelStarts) <= 1
        /\ \A r \in Requests : \E t \in TunnelStarts : t < r
        /\ (pc = "exited" /\ Tracebacks = {}) =>
               /\ Cardinality(TunnelStarts) = 1
               /\ tunnel.state = "stopped"
               /\ \E t \in TunnelStops : \A r \in Requests : r < t

-----------------------------------------------------------------------------
(* C7 *)

\* C7: an invocation posts at most once, and show posts nothing.
C7_AtMostOneWrite ==
    /\ Cardinality(Posts) <= 1
    /\ command = "show" => Posts = {}

\* an invocation that posted once and ran to its end
C7_Witness ==
    /\ pc = "exited"
    /\ exitStatus = 0
    /\ Cardinality(Posts) = 1

-----------------------------------------------------------------------------
(* C8 *)

IdentityDocuments == {"/tree", "/about_state", "/logstatus_state"}

\* C8: each document behind the identity accessors is fetched at most once
\* in an invocation.
C8_DocumentsFetchedOnce ==
    \A path \in IdentityDocuments : Cardinality(GetsOf(path)) <= 1

-----------------------------------------------------------------------------
(* C9 *)

\* C9: every request goes to https://<auer_address><path> when ssh_tunnel
\* is false, and to https://127.0.0.1:<port><path>, with the port of the
\* tunnel this invocation started, when it is true.
C9_UrlTarget ==
    \A r \in Requests :
        IF ssh_tunnel
        THEN \E t \in TunnelStarts :
               /\ t < r
               /\ log[t].body \in LocalPorts
               /\ log[r].url = <<"https://", "127.0.0.1", ":", log[t].body, log[r].path>>
        ELSE log[r].url = <<"https://", "pbx.example.org", log[r].path>>

\* a post went through the tunnel on port 40002
C9_Witness ==
    \E r \in Posts : log[r].url[2] = "127.0.0.1" /\ log[r].url[4] = "40002"

-----------------------------------------------------------------------------
(* C10 *)

\* C10: when select posts to /configs_set, the post comes right after the
\* fetch of /configs_state, with the id of the entry the scan matched; if
\* the post returned, the one-second sleep follows it directly and every
\* other request of the invocation comes after the sleep; and what
\* show_configurations renders are the documents it fetched after the
\* sleep, not the list fetched before the post.
C10_SelectOrder ==
    \A i \in PostsTo("/configs_set") :
        /\ SwitchFetched
        /\ i - 1 = Min(Requests)
        /\ LET m == Matches(FetchedRows, Str(number[1])) IN
               /\ m # {}
               /\ log[i].params.configId = Str(FetchedRows[Min(m)].id)
        /\ log[i].status # "neterr" =>
               /\ Len(log) > i
               /\ log[i + 1].op = "sleep"
               /\ log[i + 1].body = "1"
        /\ \A r \in Requests \ {i - 1, i} : r > i + 1 /\ log[i + 1].op = "sleep"
        /\ \A d \in Rendered_ :
               \E a \in GetsOf("/config_autoswitch_state"),
                  c \in GetsOf("/configs_state") :
                   /\ i + 1 < a /\ a < c /\ c < d
                   /\ log[a].status = "ok"
                   /\ log[c].status = "ok"
                   /\ log[d].body.rows =
                        [k \in DOMAIN log[c].body.rows |->
                           <<log[c].body.rows[k].data[1],
                             log[c].body.rows[k].data[2],
                             log[c].body.rows[k].userdata = "active:true">>]

\* select posted, the appliance applied the switch, and the state shown
\* differs from what the list fetched before the post would show
C10_Witness ==
    \E i \in PostsTo("/configs_set"), d \in Rendered_ :
        /\ log[i].status = "ok"
        /\ \E k \in DOMAIN FetchedRows :
               log[d].body.rows[k][3] # (FetchedRows[k].userdata = "active:true")

-----------------------------------------------------------------------------
(* C11 *)

\* the autoswitch document show_configurations read for the tables at d
ShownState(d) ==
    log[CHOOSE a \in GetsOf("/config_autoswitch_state") :
            /\ a < d
            /\ \A b \in GetsOf("/config_autoswitch_state") : b < d => b <= a].body

\* C11: whenever show_configurations has shown the state, its autoswitch
\* mark is "enabled" exactly when enable_autoswitch would return without
\* posting on the switchCfgCb it read, and "disabled" exactly when
\* disable_autoswitch would; so exactly one of the two actions would post.
C11_ShowAgreesWithGuards ==
    \A d \in Rendered_ :
        LET current == ShownState(d) IN
            /\ log[d].body.autoswitch <=> EnableGuard(current)
            /\ ~log[d].body.autoswitch <=> DisableGuard(current)
            /\ EnableGuard(current) # DisableGuard(current)

=============================================================================
